---- MODULE Spec2Model ----
(***************************************************************************)
(* Model of static/js/app.js (lines 1-280): the habit tracker front end.   *)
(* Client state is the module-level variables of app.js plus the DOM nodes *)
(* its functions write.  Every async function is cut at its awaits on the  *)
(* network: a task record holds the position of one running invocation.    *)
(* The HTTP server is an external collaborator; it is modelled from the    *)
(* interface contract (a habit collection with create/update/reset).       *)
(***************************************************************************)
EXTENDS Integers, Sequences, FiniteSets, Bags, TLC

\* ------------------------------------------------------------- bounds
MaxHabits == 3      \* largest habit id the server hands out
MaxTasks == 2       \* async invocations that may be suspended at once
MaxEvents == 2      \* user and server-side events after bootstrap
MaxRangeButton == 2 \* the user clicks the first MaxRangeButton range buttons
MaxEntries == 3     \* longest journal collection the server returns

\* ---------------------------------------------------------- constants
null == 0                       \* JS null / falsy id; habit ids are >= 1
chartRanges == <<7, 14, 30, 90>>
InitialRange == 30
DEFAULT_CHART_MESSAGE == "Add a habit to see its ideal vs actual progress."
LOADING_MESSAGE == "Loading progress..."
PROGRESS_ERROR_MESSAGE == "Could not load progress right now."
CHART_UNAVAILABLE_MESSAGE == "Chart unavailable."
HABITS_ERROR_MESSAGE == "Could not load habits."

VisStates == {"empty", "loading", "ready", "error"}
RangeSet == {chartRanges[i] : i \in 1..Len(chartRanges)}

NoChart == [hid |-> null, range |-> 0]          \* habitChart = null
NoReq == [hid |-> null, range |-> 0]
NoHabit == [id |-> null, completed |-> FALSE]

HabitIds == 1..MaxHabits
Ids(habits) == {habits[i].id : i \in 1..Len(habits)}

VARIABLES
  habitChart,         \* the chart handle: NoChart or what the chart shows
  chartDestroyed,     \* destroy() was called on the instance the handle names
  liveCharts,         \* chart instances constructed and not destroyed
  destroyCalls,       \* destroy() calls of the last step
  destroyedTwice,     \* last step called destroy() on a destroyed instance
  currentHabitId,
  currentRange,
  state,              \* placeholder.dataset.state ("unset" before bootstrap)
  message,            \* placeholder.textContent
  canvasVisible,      \* canvas.style.display = 'block'
  placeholderVisible, \* placeholder lacks class 'hidden'
  habitList,          \* the habits last rendered by renderHabits
  select,             \* #habitSelect: options, selectedIndex, disabled
  rangeButtons,       \* #rangeButtons children
  toasts,             \* toasts emitted by the last step
  previous,           \* `previous` of the last updateHabitSelectOptions call
  currentBy,          \* who last assigned currentHabitId
  stateBy,            \* who last called updateChartVisibility
  lastLoad,           \* how the last loadHabits to resume ended: "ok" or "fail"
  journal,            \* the journal panel: its load and #journalEntries
  bars,               \* one habit payload and the two bars rendered for it
  chartLib,           \* typeof Chart !== 'undefined'
  tasks,              \* suspended async invocations (a bag)
  server,             \* the server's habit collection
  events              \* user and server-side events so far

uiVars == <<habitChart, chartDestroyed, liveCharts, destroyCalls, destroyedTwice, currentHabitId,
            currentRange, state, message, canvasVisible, placeholderVisible,
            habitList, select, rangeButtons, toasts, previous, currentBy, stateBy,
            lastLoad>>
vars == <<habitChart, chartDestroyed, liveCharts, destroyCalls, destroyedTwice, currentHabitId,
          currentRange, state, message, canvasVisible, placeholderVisible,
          habitList, select, rangeButtons, toasts, previous, currentBy, stateBy,
          lastLoad, journal, bars, chartLib, tasks, server, events>>

\* The client state as one record, the outputs of the previous step cleared.
UI ==
  [habitChart |-> habitChart, chartDestroyed |-> chartDestroyed,
   liveCharts |-> liveCharts, destroyCalls |-> 0, destroyedTwice |-> FALSE,
   currentHabitId |-> currentHabitId, currentRange |-> currentRange,
   state |-> state, message |-> message, canvasVisible |-> canvasVisible,
   placeholderVisible |-> placeholderVisible, habitList |-> habitList,
   select |-> select, rangeButtons |-> rangeButtons, toasts |-> <<>>,
   previous |-> previous, currentBy |-> currentBy, stateBy |-> stateBy,
   lastLoad |-> lastLoad]

SetUI(s) ==
  /\ habitChart' = s.habitChart
  /\ chartDestroyed' = s.chartDestroyed
  /\ liveCharts' = s.liveCharts
  /\ destroyCalls' = s.destroyCalls
  /\ destroyedTwice' = s.destroyedTwice
  /\ currentHabitId' = s.currentHabitId
  /\ currentRange' = s.currentRange
  /\ state' = s.state
  /\ message' = s.message
  /\ canvasVisible' = s.canvasVisible
  /\ placeholderVisible' = s.placeholderVisible
  /\ habitList' = s.habitList
  /\ select' = s.select
  /\ rangeButtons' = s.rangeButtons
  /\ toasts' = s.toasts
  /\ previous' = s.previous
  /\ currentBy' = s.currentBy
  /\ stateBy' = s.stateBy
  /\ lastLoad' = s.lastLoad
  /\ UNCHANGED <<journal, bars>>   \* no habit handler writes these

\* ------------------------------------------------- chart instance (Chart.js)
\* habitChart.destroy(): releases the instance the handle names; the handle
\* itself is left as it was.
destroy(s) ==
  IF s.chartDestroyed
  THEN [s EXCEPT !.destroyCalls = @ + 1, !.destroyedTwice = TRUE]
  ELSE [s EXCEPT !.destroyCalls = @ + 1, !.liveCharts = @ - 1, !.chartDestroyed = TRUE]

\* habitChart = new Chart(ctx, ...) for the response to request req.
newChart(s, req) ==
  [s EXCEPT !.habitChart = [hid |-> req.hid, range |-> req.range],
            !.chartDestroyed = FALSE, !.liveCharts = @ + 1]

\* ------------------------------------------------------ updateChartVisibility
updateChartVisibilityKeepsChart(s, st, msg) ==
  LET s1 == [s EXCEPT !.message = IF msg # "" THEN msg ELSE @, !.state = st]
  IN IF st = "ready"
     THEN [s1 EXCEPT !.placeholderVisible = FALSE, !.canvasVisible = TRUE]
     ELSE [s1 EXCEPT !.placeholderVisible = TRUE, !.canvasVisible = FALSE]

updateChartVisibilityDestroysOnlyOnEmpty(s, st, msg) ==
  LET s1 == [s EXCEPT !.message = IF msg # "" THEN msg ELSE @, !.state = st]
  IN IF st = "ready"
     THEN [s1 EXCEPT !.placeholderVisible = FALSE, !.canvasVisible = TRUE]
     ELSE LET s2 == [s1 EXCEPT !.placeholderVisible = TRUE, !.canvasVisible = FALSE]
          IN IF st = "empty" /\ s2.habitChart # NoChart
             THEN [destroy(s2) EXCEPT !.habitChart = NoChart, !.chartDestroyed = FALSE]
             ELSE s2

updateChartVisibilityLoadingShowsCanvas(s, st, msg) ==
  LET s1 == [s EXCEPT !.message = IF msg # "" THEN msg ELSE @, !.state = st]
  IN IF st \in {"ready", "loading"}
     THEN [s1 EXCEPT !.placeholderVisible = (st # "ready"), !.canvasVisible = TRUE]
     ELSE LET s2 == [s1 EXCEPT !.placeholderVisible = TRUE, !.canvasVisible = FALSE]
          IN IF st \in {"empty", "error"} /\ s2.habitChart # NoChart
             THEN [destroy(s2) EXCEPT !.habitChart = NoChart, !.chartDestroyed = FALSE]
             ELSE s2

updateChartVisibilityTogglesPlaceholder(s, st, msg) ==
  LET s1 == [s EXCEPT !.message = IF msg # "" THEN msg ELSE @, !.state = st]
  IN IF st = "ready"
     THEN [s1 EXCEPT !.placeholderVisible = FALSE, !.canvasVisible = TRUE]
     ELSE LET s2 == [s1 EXCEPT !.placeholderVisible = ~s.placeholderVisible,
                               !.canvasVisible = FALSE]
          IN IF st \in {"empty", "error"} /\ s2.habitChart # NoChart
             THEN [destroy(s2) EXCEPT !.habitChart = NoChart, !.chartDestroyed = FALSE]
             ELSE s2

updateChartVisibility(s, st, msg) ==
  LET s1 == [s EXCEPT !.message = IF msg # "" THEN msg ELSE @, !.state = st]
  IN IF st = "ready"
     THEN [s1 EXCEPT !.placeholderVisible = FALSE, !.canvasVisible = TRUE]
     ELSE LET s2 == [s1 EXCEPT !.placeholderVisible = TRUE, !.canvasVisible = FALSE]
          IN IF st \in {"empty", "error"} /\ s2.habitChart # NoChart
             THEN [destroy(s2) EXCEPT !.habitChart = NoChart, !.chartDestroyed = FALSE]
             ELSE s2

\* ------------------------------------------------------------------ showToast
showToast(s, text, tone) == [s EXCEPT !.toasts = Append(@, [text |-> text, tone |-> tone])]

\* --------------------------------------------------------------- renderHabits
renderHabits(s, habits) ==
  LET s1 == [s EXCEPT !.habitList = habits]
  IN IF Len(habits) = 0
     THEN [updateChartVisibility(s1, "empty", DEFAULT_CHART_MESSAGE)
             EXCEPT !.stateBy = "renderHabits"]
     ELSE s1

\* ---------------------------------------------------- updateHabitSelectOptions
\* The forEach of lines 197-201: cur is currentHabitId as the loop leaves it,
\* sel the index of the last option created with option.selected = true.
RECURSIVE selectLoop(_, _, _, _, _)
selectLoop(habits, i, prev, cur, sel) ==
  IF i > Len(habits) THEN [cur |-> cur, sel |-> sel]
  ELSE LET hit == (prev # null /\ prev = habits[i].id)
                  \/ (prev = null /\ cur = null)
       IN selectLoop(habits, i + 1, prev,
                     IF hit THEN habits[i].id ELSE cur,
                     IF hit THEN i ELSE sel)

habitOptions(habits) ==
  [i \in 1..Len(habits) |-> [value |-> habits[i].id, disabled |-> FALSE]]

\* select.value = String(id): the first option carrying that value.
indexOfValue(options, v) ==
  IF \E i \in 1..Len(options) : options[i].value = v
  THEN CHOOSE i \in 1..Len(options) :
         options[i].value = v /\ \A j \in 1..(i - 1) : options[j].value # v
  ELSE 0

updateHabitSelectOptionsKeepsStale(s, habits) ==
  LET loop == selectLoop(habits, 1, s.currentHabitId, s.currentHabitId, 0)
      opts == habitOptions(habits)
  IN IF Len(habits) > 0
     THEN [s EXCEPT !.currentHabitId = loop.cur,
                    !.previous = s.currentHabitId,
                    !.currentBy = "updateHabitSelectOptions",
                    !.select = [options |-> opts,
                                selectedIndex |-> IF loop.sel = 0 THEN 1 ELSE loop.sel,
                                disabled |-> FALSE]]
     ELSE [s EXCEPT !.currentHabitId = null,
                    !.previous = s.currentHabitId,
                    !.currentBy = "updateHabitSelectOptions",
                    !.select = [options |-> <<[value |-> null, disabled |-> TRUE]>>,
                                selectedIndex |-> 1, disabled |-> TRUE]]

updateHabitSelectOptionsFallsBackToLast(s, habits) ==
  LET loop == selectLoop(habits, 1, s.currentHabitId, s.currentHabitId, 0)
      opts == habitOptions(habits)
  IN IF Len(habits) > 0
     THEN LET found == \E i \in 1..Len(habits) : habits[i].id = loop.cur
              cur == IF found THEN loop.cur ELSE habits[Len(habits)].id
          IN [s EXCEPT !.currentHabitId = cur,
                       !.previous = s.currentHabitId,
                       !.currentBy = "updateHabitSelectOptions",
                       !.select = [options |-> opts,
                                   selectedIndex |->
                                     IF ~found THEN indexOfValue(opts, cur)
                                     ELSE IF loop.sel = 0 THEN 1 ELSE loop.sel,
                                   disabled |-> FALSE]]
     ELSE [s EXCEPT !.currentHabitId = null,
                    !.previous = s.currentHabitId,
                    !.currentBy = "updateHabitSelectOptions",
                    !.select = [options |-> <<[value |-> null, disabled |-> TRUE]>>,
                                selectedIndex |-> 1, disabled |-> TRUE]]

updateHabitSelectOptionsAlwaysFirst(s, habits) ==
  LET opts == habitOptions(habits)
  IN IF Len(habits) > 0
     THEN [s EXCEPT !.currentHabitId = habits[1].id,
                    !.previous = s.currentHabitId,
                    !.currentBy = "updateHabitSelectOptions",
                    !.select = [options |-> opts, selectedIndex |-> 1,
                                disabled |-> FALSE]]
     ELSE [s EXCEPT !.currentHabitId = null,
                    !.previous = s.currentHabitId,
                    !.currentBy = "updateHabitSelectOptions",
                    !.select = [options |-> <<[value |-> null, disabled |-> TRUE]>>,
                                selectedIndex |-> 1, disabled |-> TRUE]]

updateHabitSelectOptions(s, habits) ==
  LET loop == selectLoop(habits, 1, s.currentHabitId, s.currentHabitId, 0)
      opts == habitOptions(habits)
  IN IF Len(habits) > 0
     THEN LET found == \E i \in 1..Len(habits) : habits[i].id = loop.cur
              cur == IF found THEN loop.cur ELSE habits[1].id
          IN [s EXCEPT !.currentHabitId = cur,
                       !.previous = s.currentHabitId,
                       !.currentBy = "updateHabitSelectOptions",
                       !.select = [options |-> opts,
                                   \* no option marked selected: the browser shows the first
                                   selectedIndex |->
                                     IF ~found THEN indexOfValue(opts, cur)
                                     ELSE IF loop.sel = 0 THEN 1 ELSE loop.sel,
                                   disabled |-> FALSE]]
     ELSE [s EXCEPT !.currentHabitId = null,
                    !.previous = s.currentHabitId,
                    !.currentBy = "updateHabitSelectOptions",
                    !.select = [options |-> <<[value |-> null, disabled |-> TRUE]>>,
                                selectedIndex |-> 1, disabled |-> TRUE]]

\* ------------------------------------------------------------ setupRangeButtons
setupRangeButtonsInitialActive(s) ==
  [s EXCEPT !.rangeButtons =
     [i \in 1..Len(chartRanges) |->
        [range |-> chartRanges[i],
         active |-> (chartRanges[i] = InitialRange),
         disabled |-> (s.currentHabitId = null)]]]

setupRangeButtons(s) ==
  [s EXCEPT !.rangeButtons =
     [i \in 1..Len(chartRanges) |->
        [range |-> chartRanges[i],
         active |-> (chartRanges[i] = s.currentRange),
         disabled |-> (s.currentHabitId = null)]]]

\* ------------------------------------------------------------ loadHabitProgress
\* Line 222, up to the fetch: the request is for the habit and range of now.
progressIssued(s) == s.currentHabitId # null

progressRequestInitialRange(s) == [hid |-> s.currentHabitId, range |-> InitialRange]

progressRequest(s) == [hid |-> s.currentHabitId, range |-> s.currentRange]

loadHabitProgressStartUnguarded(s) ==
  [updateChartVisibility(s, "loading", LOADING_MESSAGE)
     EXCEPT !.stateBy = "loadHabitProgress"]

loadHabitProgressStart(s) ==
  IF s.currentHabitId = null THEN s
  ELSE [updateChartVisibility(s, "loading", LOADING_MESSAGE)
          EXCEPT !.stateBy = "loadHabitProgress"]

progressCatchStaysLoading(s) == showToast(s, "Could not load progress", "error")

\* The catch clause of line 243.
progressCatch(s) ==
  showToast([updateChartVisibility(s, "error", PROGRESS_ERROR_MESSAGE)
               EXCEPT !.stateBy = "progressResponse"],
            "Could not load progress", "error")

\* Lines 224-243 from the response on.  outcome: "fail" (transport error or
\* non-success status), "malformed" (a success whose payload lacks dates or
\* habit) or "ok".
loadHabitProgressResponseNoDestroy(s, req, outcome, lib) ==
  IF outcome = "fail" THEN progressCatch(s)
  ELSE IF ~lib
  THEN showToast([updateChartVisibility(s, "error", CHART_UNAVAILABLE_MESSAGE)
                    EXCEPT !.stateBy = "progressResponse"],
                 "Progress chart unavailable right now", "error")
  ELSE IF outcome = "malformed" THEN progressCatch(s)
       ELSE [updateChartVisibility(newChart(s, req), "ready", "")
               EXCEPT !.stateBy = "progressResponse"]

loadHabitProgressResponseMalformedStaysLoading(s, req, outcome, lib) ==
  IF outcome = "fail" THEN progressCatch(s)
  ELSE IF ~lib
  THEN showToast([updateChartVisibility(s, "error", CHART_UNAVAILABLE_MESSAGE)
                    EXCEPT !.stateBy = "progressResponse"],
                 "Progress chart unavailable right now", "error")
  ELSE LET s1 == IF s.habitChart # NoChart THEN destroy(s) ELSE s
       IN IF outcome = "malformed" THEN progressCatchStaysLoading(s1)
          ELSE [updateChartVisibility(newChart(s1, req), "ready", "")
                  EXCEPT !.stateBy = "progressResponse"]

loadHabitProgressResponseDropsStale(s, req, outcome, lib) ==
  IF req # progressRequest(s) THEN s
  ELSE IF outcome = "fail" THEN progressCatch(s)
  ELSE IF ~lib
  THEN showToast([updateChartVisibility(s, "error", CHART_UNAVAILABLE_MESSAGE)
                    EXCEPT !.stateBy = "progressResponse"],
                 "Progress chart unavailable right now", "error")
  ELSE LET s1 == IF s.habitChart # NoChart THEN destroy(s) ELSE s
       IN IF outcome = "malformed" THEN progressCatch(s1)
          ELSE [updateChartVisibility(newChart(s1, req), "ready", "")
                  EXCEPT !.stateBy = "progressResponse"]

loadHabitProgressResponse(s, req, outcome, lib) ==
  IF outcome = "fail" THEN progressCatch(s)
  ELSE IF ~lib
  THEN showToast([updateChartVisibility(s, "error", CHART_UNAVAILABLE_MESSAGE)
                    EXCEPT !.stateBy = "progressResponse"],
                 "Progress chart unavailable right now", "error")
  ELSE LET s1 == IF s.habitChart # NoChart THEN destroy(s) ELSE s
       IN IF outcome = "malformed" THEN progressCatch(s1)
          ELSE [updateChartVisibility(newChart(s1, req), "ready", "")
                  EXCEPT !.stateBy = "progressResponse"]

\* ------------------------------------------------------------------- server
\* The HTTP API of the interface contract: a habit collection in creation
\* order, ids unique within it.
Max(S) == CHOOSE x \in S : \A y \in S : y <= x

NextId(habits) == IF Len(habits) = 0 THEN 1 ELSE Max(Ids(habits)) + 1

DemoHabits == <<[id |-> 1, completed |-> FALSE]>>

srvCreate(habits) == Append(habits, [id |-> NextId(habits), completed |-> FALSE])

srvUpdate(habits, id, completed) ==
  [i \in 1..Len(habits) |->
     IF habits[i].id = id THEN [habits[i] EXCEPT !.completed = completed]
     ELSE habits[i]]

\* The collections the server may hold when the page loads: any set of ids in
\* ascending (creation) order, nothing completed yet today.
RECURSIVE ascending(_)
ascending(S) ==
  IF S = {} THEN <<>>
  ELSE LET m == CHOOSE x \in S : \A y \in S : x <= y
       IN <<m>> \o ascending(S \ {m})

InitialCollections ==
  {[i \in 1..Len(ascending(S)) |-> [id |-> ascending(S)[i], completed |-> FALSE]] :
     S \in SUBSET HabitIds}

srvRemove(habits, i) ==
  [j \in 1..(Len(habits) - 1) |-> IF j < i THEN habits[j] ELSE habits[j + 1]]

\* -------------------------------------------------------------------- tasks
\* One suspended async invocation: kind is the handler that started it, pc
\* the await it is suspended at, habit the habit object a completion click
\* captured, req the progress request it waits for, resp/snap the answer to
\* its GET /api/habits once the server has produced it.  changed and loads
\* keep the history of the invocation: whether it has given currentHabitId a
\* new non-null value, and how many times it has called loadHabitProgress
\* since it last did.
Idle == [kind |-> "none", pc |-> "idle", habit |-> NoHabit, req |-> NoReq,
         resp |-> "none", snap |-> <<>>, changed |-> FALSE, loads |-> 0]

Task(kind, pc, habit, req) ==
  [kind |-> kind, pc |-> pc, habit |-> habit, req |-> req,
   resp |-> "pending", snap |-> <<>>, changed |-> FALSE, loads |-> 0]

Running == BagToSet(tasks)
HasFree == BagCardinality(tasks) < MaxTasks
Spawn(tk) == tasks' = tasks (+) SetToBag({tk})
Finish(tk) == tasks' = tasks (-) SetToBag({tk})
Become(tk, new) ==
  tasks' = IF new = Idle THEN tasks (-) SetToBag({tk})
           ELSE (tasks (-) SetToBag({tk})) (+) SetToBag({new})

\* A continuation queued as a microtask runs before any other event.
MicrotaskPending == \E tk \in Running : tk.pc = "after"
Booted == state # "unset"
Ready == Booted /\ ~MicrotaskPending
MayAct == Ready /\ HasFree /\ events < MaxEvents

\* currentHabitId has a new non-null value in s1.
selectionChanged(s, s1) ==
  s1.currentHabitId # null /\ s1.currentHabitId # s.currentHabitId

ProgressPcs == {"prog", "prog2", "view"}
ProgressInFlight == {tk \in Running : tk.pc \in ProgressPcs}

\* loadHabits() up to its first await: ensureDemoSeed's GET /api/habits.
startLoadHabits(tk) ==
  [tk EXCEPT !.pc = "probe", !.resp = "pending", !.req = NoReq, !.snap = <<>>]

\* loadHabits() has returned: its caller resumes in a microtask.
finishLoadHabits(tk) ==
  IF tk.kind \in {"addHabit", "toggle"}
  THEN [Idle EXCEPT !.kind = tk.kind, !.pc = "after", !.habit = tk.habit,
                    !.changed = tk.changed, !.loads = tk.loads]
  ELSE Idle

\* Lines 216-217 up to the call of loadHabitProgress.
loadHabitsRenderedButtonsFirst(s, habits) ==
  updateHabitSelectOptions(setupRangeButtons(renderHabits(s, habits)), habits)

loadHabitsRendered(s, habits) ==
  setupRangeButtons(updateHabitSelectOptions(renderHabits(s, habits), habits))

loadHabitsRenderProgressFirst(s, habits) ==
  LET s1 == renderHabits(s, habits)
      s2 == IF s1.currentHabitId # null THEN loadHabitProgressStart(s1)
            ELSE [updateChartVisibility(s1, "empty", DEFAULT_CHART_MESSAGE)
                    EXCEPT !.stateBy = "loadHabits"]
  IN setupRangeButtons(updateHabitSelectOptions(s2, habits))

\* Lines 216-217, from the parsed collection on.
loadHabitsRender(s, habits) ==
  LET s1 == loadHabitsRendered(s, habits)
  IN IF s1.currentHabitId # null THEN loadHabitProgressStart(s1)
     ELSE [updateChartVisibility(s1, "empty", DEFAULT_CHART_MESSAGE)
             EXCEPT !.stateBy = "loadHabits"]

\* The catch clause of line 218.
loadHabitsCatch(s) ==
  [updateChartVisibility(showToast(s, "Could not load habits", "error"),
                         "error", HABITS_ERROR_MESSAGE)
     EXCEPT !.stateBy = "loadHabitsCatch"]

\* ------------------------------------------------------------------ journal
\* loadJournalEntries (lines 104-125).  The timestamps the server sends are
\* ISO instants; new Date(timestamp) turns each into a point in time (hours
\* since 2024-01-01T00:00Z here), which is not the order of the texts.
Instants ==
  << [iso |-> "2024-01-01T10:00:00Z", hours |-> 10],
     [iso |-> "2024-01-01T23:00:00-02:00", hours |-> 25],
     [iso |-> "2024-01-02T00:00:00Z", hours |-> 24] >>

IsoSet == {Instants[i].iso : i \in 1..Len(Instants)}

DateOf(timestamp) ==
  Instants[CHOOSE i \in 1..Len(Instants) : Instants[i].iso = timestamp].hours

compareEntriesOldestFirst(a, b) == DateOf(a.timestamp) - DateOf(b.timestamp)

\* The comparator of line 109.
compareEntries(a, b) == DateOf(b.timestamp) - DateOf(a.timestamp)

\* entries.sort(compare): stable; e goes after everything that does not
\* compare greater than it.
insertEntry(acc, e) ==
  LET k == Cardinality({i \in 1..Len(acc) : compareEntries(acc[i], e) <= 0})
  IN SubSeq(acc, 1, k) \o <<e>> \o SubSeq(acc, k + 1, Len(acc))

RECURSIVE sortEntries(_, _)
sortEntries(entries, n) ==
  IF n = 0 THEN <<>> ELSE insertEntry(sortEntries(entries, n - 1), entries[n])

EmptyItem == [class |-> "empty-state", id |-> null, timestamp |-> ""]

\* Lines 109-123: #journalEntries after a successful fetch.
renderJournal(list, entries) ==
  IF Len(entries) = 0 THEN <<EmptyItem>>
  ELSE [i \in 1..Len(entries) |->
          [class |-> "journal-entry",
           id |-> sortEntries(entries, Len(entries))[i].id,
           timestamp |-> sortEntries(entries, Len(entries))[i].timestamp]]

JournalIdle == [pc |-> "idle", response |-> <<>>, list |-> <<>>, toasts |-> <<>>]

\* What GET /api/journal may answer: entries in any order, equal instants
\* included.
JournalCollections ==
  UNION {{[i \in 1..n |-> [id |-> i, timestamp |-> f[i]]] : f \in [1..n -> IsoSet]} :
           n \in 0..MaxEntries}

\* --------------------------------------------------------------- habit bars
\* Lines 170-180 of renderHabits.  A field of the payload is a number, held
\* in tenths (45.5 is 455), or is absent, NaN or Infinity.
Number(tenths) == [kind |-> "number", tenths |-> tenths]
Missing == [kind |-> "missing", tenths |-> 0]
NotNumbers == {Missing, [kind |-> "NaN", tenths |-> 0], [kind |-> "Infinity", tenths |-> 0]}

isFinite(v) == v.kind = "number"

mathMin(a, b) == IF a <= b THEN a ELSE b
mathMax(a, b) == IF a >= b THEN a ELSE b

\* Math.round(n / d) for d > 0: the nearest integer, halves upwards.
mathRound(n, d) == (2 * n + d) \div (2 * d)

safeTarget(target) == IF isFinite(target) /\ target.tenths > 0 THEN target.tenths ELSE 70
safeScore(score) == IF isFinite(score) THEN score.tenths ELSE 0

\* Line 178: Math.round(Math.min(1, Math.max(0, safeTarget / 7)) * 100).
idealWidth(target) == mathRound(mathMin(70, mathMax(0, safeTarget(target))) * 100, 70)

actualWidthNoLowerClamp(score) == mathMin(100, mathRound(safeScore(score), 10))

\* Line 180: Math.min(100, Math.max(0, Math.round(safeScore))).
actualWidth(score) == mathMin(100, mathMax(0, mathRound(safeScore(score), 10)))

NoBars == [pc |-> "none", score |-> Missing, target |-> Missing, ideal |-> 0, actual |-> 0]

\* The scores and weekly targets a habit payload may carry.
Scores == NotNumbers \cup {Number(x) : x \in {-50, -5, 0, 4, 5, 454, 455, 1000, 1004, 1500}}
Targets == NotNumbers \cup {Number(x) : x \in {-10, 0, 10, 20, 30, 35, 40, 50, 60, 70, 80, 140}}

\* ------------------------------------------------------------------- Init
HabitsInit ==
  /\ habitChart = NoChart
  /\ chartDestroyed = FALSE
  /\ liveCharts = 0
  /\ destroyCalls = 0
  /\ destroyedTwice = FALSE
  /\ currentHabitId = null
  /\ currentRange = InitialRange
  /\ state = "unset"
  /\ message = ""
  /\ canvasVisible \in BOOLEAN
  /\ placeholderVisible \in BOOLEAN
  /\ habitList = <<>>
  /\ select = [options |-> <<>>, selectedIndex |-> 0, disabled |-> FALSE]
  /\ rangeButtons = <<>>
  /\ toasts = <<>>
  /\ previous = null
  /\ currentBy = "init"
  /\ stateBy = "init"
  /\ lastLoad = "none"
  /\ chartLib \in BOOLEAN
  /\ tasks = EmptyBag
  /\ server \in InitialCollections
  /\ events = 0

Init ==
  /\ HabitsInit
  /\ journal = JournalIdle
  /\ bars = NoBars

\* ---------------------------------------------------------------- actions
\* DOMContentLoaded (lines 257-259).
Bootstrap ==
  /\ ~Booted
  /\ SetUI([updateChartVisibility(setupRangeButtons(UI), "empty", DEFAULT_CHART_MESSAGE)
              EXCEPT !.stateBy = "bootstrap"])
  /\ Spawn(startLoadHabits(Task("bootstrap", "probe", NoHabit, NoReq)))
  /\ UNCHANGED <<chartLib, server, events>>

\* ensureDemoSeed resumes with the answer to its GET /api/habits (lines
\* 12-16); unless it seeds, loadHabits goes on to its own GET (line 214).
ProbeResolveWithSeedsAlways(tk, ok) ==
  /\ Ready
  /\ tk.pc = "probe"
  /\ Become(tk, [tk EXCEPT !.pc = IF ok THEN "seed" ELSE "get"])
  /\ SetUI(UI)
  /\ UNCHANGED <<chartLib, server, events>>

ProbeResolveWith(tk, ok) ==
  /\ Ready
  /\ tk.pc = "probe"
  /\ Become(tk, [tk EXCEPT !.pc = IF ok /\ Len(server) = 0 THEN "seed" ELSE "get"])
  /\ SetUI(UI)
  /\ UNCHANGED <<chartLib, server, events>>

ProbeResolve(tk) == \E ok \in BOOLEAN : ProbeResolveWith(tk, ok)

\* POST /api/demo/reset of line 16 settles; its outcome is ignored.
SeedResolve(tk) ==
  /\ Ready
  /\ tk.pc = "seed"
  /\ \E ok \in BOOLEAN : server' = IF ok THEN DemoHabits ELSE server
  /\ Become(tk, [tk EXCEPT !.pc = "get"])
  /\ SetUI(UI)
  /\ UNCHANGED <<chartLib, events>>

\* The server answers loadHabits' GET /api/habits (line 214).
GetServer(tk) ==
  /\ tk.pc = "get" /\ tk.resp = "pending"
  /\ \E ok \in BOOLEAN :
       Become(tk, [tk EXCEPT !.resp = IF ok THEN "ok" ELSE "fail",
                             !.snap = IF ok THEN server ELSE <<>>])
  /\ SetUI(UI)
  /\ UNCHANGED <<chartLib, server, events>>

\* loadHabits resumes with the response (lines 214-218).
GetResolve(tk) ==
  /\ Ready
  /\ tk.pc = "get" /\ tk.resp # "pending"
  /\ IF tk.resp = "fail"
     THEN /\ SetUI([loadHabitsCatch(UI) EXCEPT !.lastLoad = "fail"])
          /\ Become(tk, finishLoadHabits(tk))
     ELSE LET s1 == loadHabitsRendered(UI, tk.snap)
              t1 == IF selectionChanged(UI, s1)
                    THEN [tk EXCEPT !.changed = TRUE, !.loads = 0]
                    ELSE tk
          IN /\ SetUI([loadHabitsRender(UI, tk.snap) EXCEPT !.lastLoad = "ok"])
             /\ Become(tk, IF progressIssued(s1)
                           THEN [t1 EXCEPT !.pc = "prog", !.req = progressRequest(s1),
                                           !.resp = "pending", !.snap = <<>>,
                                           !.loads = @ + 1]
                           ELSE finishLoadHabits(t1))
  /\ UNCHANGED <<chartLib, server, events>>

\* loadHabitProgress resumes with the response (lines 224-243).
ProgressResolveWith(tk, outcome) ==
  /\ Ready
  /\ tk.pc \in ProgressPcs
  /\ SetUI(loadHabitProgressResponse(UI, tk.req, outcome, chartLib))
  /\ Become(tk, IF tk.pc = "prog" THEN finishLoadHabits(tk) ELSE Idle)
  /\ UNCHANGED <<chartLib, server, events>>

ProgressOutcomes == {"ok", "fail", "malformed"}

ProgressResolve(tk) == \E outcome \in ProgressOutcomes : ProgressResolveWith(tk, outcome)

\* addHabit / toggleHabitCompletion resume after `await loadHabits()`
\* (second statements of lines 142 and 150).
AfterLoadHabits(tk) ==
  /\ tk.pc = "after"
  /\ LET again == IF tk.kind = "addHabit" THEN currentHabitId # null
                  ELSE currentHabitId = tk.habit.id
     IN IF again /\ progressIssued(UI)
        THEN /\ SetUI(loadHabitProgressStart(UI))
             /\ Become(tk, [tk EXCEPT !.pc = "prog2", !.req = progressRequest(UI),
                                      !.resp = "pending", !.loads = @ + 1])
        ELSE /\ SetUI(UI)
             /\ Finish(tk)
  /\ UNCHANGED <<chartLib, server, events>>

\* Submit of #habitForm (addHabit, lines 128-135): nothing happens for an
\* empty trimmed name, otherwise POST /api/habits is sent.
SubmitHabitNamed(name) ==
  /\ MayAct
  /\ IF name = "" THEN UNCHANGED tasks
     ELSE Spawn(Task("addHabit", "post", NoHabit, NoReq))
  /\ SetUI(UI)
  /\ events' = events + 1
  /\ UNCHANGED <<chartLib, server>>

SubmitHabit == \E name \in {"", "Meditate"} : SubmitHabitNamed(name)

\* addHabit resumes with the response to POST /api/habits (lines 136-143).
PostResolveWith(tk, ok) ==
  /\ Ready
  /\ tk.pc = "post"
  /\ IF ok
     THEN /\ NextId(server) <= MaxHabits
          /\ server' = srvCreate(server)
          /\ LET created == server'[Len(server')]
                 s1 == [UI EXCEPT !.currentHabitId =
                                    IF created.id # null THEN created.id ELSE @,
                                  !.currentBy = "addHabit"]
             IN /\ SetUI(showToast(s1, "Habit added", "success"))
                /\ Become(tk, startLoadHabits(
                                [tk EXCEPT !.habit = created,
                                           !.changed = selectionChanged(UI, s1)]))
     ELSE /\ SetUI(showToast(UI, "Could not add habit", "error"))
          /\ Finish(tk)
          /\ UNCHANGED server
  /\ UNCHANGED <<chartLib, events>>

PostResolve(tk) == \E ok \in BOOLEAN : PostResolveWith(tk, ok)

\* Click on a habit's completion button (line 186): PUT with the negation of
\* the rendered flag.
ClickComplete(i) ==
  /\ MayAct
  /\ i \in 1..Len(habitList)
  /\ Spawn(Task("toggle", "put", habitList[i], NoReq))
  /\ SetUI(UI)
  /\ events' = events + 1
  /\ UNCHANGED <<chartLib, server>>

\* toggleHabitCompletion resumes with the response to the PUT (lines 149-151).
PutResolveWithLocalFlip(tk, ok) ==
  /\ Ready
  /\ tk.pc = "put"
  /\ IF ok
     THEN /\ tk.habit.id \in Ids(server)
          /\ server' = srvUpdate(server, tk.habit.id, ~tk.habit.completed)
          /\ SetUI([UI EXCEPT !.habitList =
                                srvUpdate(@, tk.habit.id, ~tk.habit.completed)])
          /\ Finish(tk)
     ELSE /\ SetUI(showToast(UI, "Could not update habit", "error"))
          /\ Finish(tk)
          /\ UNCHANGED server
  /\ UNCHANGED <<chartLib, events>>

PutResolveWithSelectsToggled(tk, ok) ==
  /\ Ready
  /\ tk.pc = "put"
  /\ IF ok
     THEN /\ tk.habit.id \in Ids(server)
          /\ server' = srvUpdate(server, tk.habit.id, ~tk.habit.completed)
          /\ SetUI([UI EXCEPT !.currentHabitId = tk.habit.id, !.currentBy = "toggle"])
          /\ Become(tk, startLoadHabits(tk))
     ELSE /\ SetUI(showToast(UI, "Could not update habit", "error"))
          /\ Finish(tk)
          /\ UNCHANGED server
  /\ UNCHANGED <<chartLib, events>>

PutResolveWith(tk, ok) ==
  /\ Ready
  /\ tk.pc = "put"
  /\ IF ok
     THEN /\ tk.habit.id \in Ids(server)
          /\ server' = srvUpdate(server, tk.habit.id, ~tk.habit.completed)
          /\ SetUI(UI)
          /\ Become(tk, startLoadHabits(tk))
     ELSE /\ SetUI(showToast(UI, "Could not update habit", "error"))
          /\ Finish(tk)
          /\ UNCHANGED server
  /\ UNCHANGED <<chartLib, events>>

PutResolve(tk) == \E ok \in BOOLEAN : PutResolveWith(tk, ok)

\* Click on a habit's 'View progress' button (line 188).
ClickViewProgress(i) ==
  /\ MayAct
  /\ i \in 1..Len(habitList)
  /\ LET s1 == updateHabitSelectOptions(
                 [UI EXCEPT !.currentHabitId = habitList[i].id, !.currentBy = "view"],
                 habitList)
     IN /\ SetUI(loadHabitProgressStart(s1))
        /\ IF progressIssued(s1)
           THEN Spawn([Task("progress", "view", NoHabit, progressRequest(s1))
                         EXCEPT !.changed = selectionChanged(UI, s1), !.loads = 1])
           ELSE UNCHANGED tasks
  /\ events' = events + 1
  /\ UNCHANGED <<chartLib, server>>

\* change event of #habitSelect (line 263): the user picks another option.
ChangeSelect(i) ==
  /\ MayAct
  /\ ~select.disabled
  /\ i \in 1..Len(select.options)
  /\ i # select.selectedIndex
  /\ ~select.options[i].disabled
  /\ LET nextId == select.options[i].value
         s0 == [UI EXCEPT !.select.selectedIndex = i]
         s1 == IF nextId # null
               THEN [s0 EXCEPT !.currentHabitId = nextId, !.currentBy = "select"]
               ELSE s0
     IN /\ SetUI(IF nextId # null THEN loadHabitProgressStart(s1) ELSE s1)
        /\ IF nextId # null /\ progressIssued(s1)
           THEN Spawn([Task("progress", "view", NoHabit, progressRequest(s1))
                         EXCEPT !.changed = selectionChanged(UI, s1), !.loads = 1])
           ELSE UNCHANGED tasks
  /\ events' = events + 1
  /\ UNCHANGED <<chartLib, server>>

\* Click on an enabled range button (line 248).
ClickRange(i) ==
  /\ MayAct
  /\ i \in 1..Len(rangeButtons)
  /\ ~rangeButtons[i].disabled
  /\ LET s1 == setupRangeButtons([UI EXCEPT !.currentRange = rangeButtons[i].range])
     IN /\ SetUI(loadHabitProgressStart(s1))
        /\ IF progressIssued(s1)
           THEN Spawn([Task("progress", "view", NoHabit, progressRequest(s1))
                         EXCEPT !.loads = 1])
           ELSE UNCHANGED tasks
  /\ events' = events + 1
  /\ UNCHANGED <<chartLib, server>>

\* Click on #demoSeedBtn (lines 265-266): POST /api/demo/reset is sent.
ClickDemoSeed ==
  /\ MayAct
  /\ Spawn(Task("demoSeed", "reset", NoHabit, NoReq))
  /\ SetUI(UI)
  /\ events' = events + 1
  /\ UNCHANGED <<chartLib, server>>

\* The demoSeedBtn handler resumes (line 266): only a rejected fetch is a
\* failure; the response status is not looked at.
\* out: "ok", "status" (a non-success HTTP status) or "rejected".
ResetResolveWith(tk, out) ==
  /\ Ready
  /\ tk.pc = "reset"
  /\ server' = IF out = "ok" THEN DemoHabits ELSE server
  /\ IF out = "rejected"
     THEN /\ SetUI(showToast(UI, "Could not load demo data", "error"))
          /\ Finish(tk)
     ELSE /\ SetUI(showToast(UI, "Demo data loaded", "success"))
          /\ Become(tk, startLoadHabits(tk))
  /\ UNCHANGED <<chartLib, events>>

ResetOutcomes == {"ok", "status", "rejected"}

ResetResolve(tk) == \E out \in ResetOutcomes : ResetResolveWith(tk, out)

\* The collection changes on the server without this page (another session).
ServerDeleteHabit(i) ==
  /\ Booted /\ events < MaxEvents
  /\ i \in 1..Len(server)
  /\ server' = srvRemove(server, i)
  /\ SetUI(UI)
  /\ events' = events + 1
  /\ UNCHANGED <<chartLib, tasks>>

Next ==
  \/ Bootstrap
  \/ SubmitHabit
  \/ ClickDemoSeed
  \/ \E i \in 1..MaxHabits : ClickComplete(i)
  \/ \E i \in 1..MaxHabits : ClickViewProgress(i)
  \/ \E i \in 1..MaxHabits : ChangeSelect(i)
  \/ \E i \in 1..MaxRangeButton : ClickRange(i)
  \/ \E i \in 1..MaxHabits : ServerDeleteHabit(i)
  \/ \E tk \in Running : ProbeResolve(tk)
  \/ \E tk \in Running : SeedResolve(tk)
  \/ \E tk \in Running : GetServer(tk)
  \/ \E tk \in Running : GetResolve(tk)
  \/ \E tk \in Running : ProgressResolve(tk)
  \/ \E tk \in Running : AfterLoadHabits(tk)
  \/ \E tk \in Running : PostResolve(tk)
  \/ \E tk \in Running : PutResolve(tk)
  \/ \E tk \in Running : ResetResolve(tk)

Spec == Init /\ [][Next]_vars

\* ------------------------------------------------------- a habit's two bars
BarsInit ==
  /\ HabitsInit
  /\ journal = JournalIdle
  /\ bars \in {[NoBars EXCEPT !.pc = "payload", !.score = s, !.target = g] :
                  s \in Scores, g \in Targets}

\* renderHabits builds the list item of one habit (lines 176-182).
RenderBars ==
  /\ bars.pc = "payload"
  /\ bars' = [bars EXCEPT !.pc = "rendered",
                          !.ideal = idealWidth(bars.target),
                          !.actual = actualWidth(bars.score)]
  /\ UNCHANGED <<uiVars, chartLib, tasks, server, events, journal>>

BarsNext == RenderBars

BarsSpec == BarsInit /\ [][BarsNext]_vars

\* ------------------------------------------------------- the journal panel
\* The page with a journal list rendered before (empty then, or never) and the
\* collection the server will answer with.
JournalInit ==
  /\ HabitsInit
  /\ bars = NoBars
  /\ journal \in {[JournalIdle EXCEPT !.response = r, !.list = l] :
                     r \in JournalCollections, l \in {<<>>, <<EmptyItem>>}}

\* loadJournalEntries() up to its await (line 106).
LoadJournalEntries ==
  /\ journal.pc = "idle"
  /\ journal' = [journal EXCEPT !.pc = "fetching"]
  /\ UNCHANGED <<uiVars, chartLib, tasks, server, events, bars>>

\* loadJournalEntries resumes with the response (lines 107-124).
JournalResolveWith(ok) ==
  /\ journal.pc = "fetching"
  /\ journal' = IF ok
                THEN [journal EXCEPT !.pc = "done",
                                     !.list = renderJournal(@, journal.response)]
                ELSE [journal EXCEPT !.pc = "done",
                                     !.toasts = Append(@, [text |-> "Could not load journal entries",
                                                           tone |-> "error"])]
  /\ UNCHANGED <<uiVars, chartLib, tasks, server, events, bars>>

JournalNext ==
  \/ LoadJournalEntries
  \/ \E ok \in BOOLEAN : JournalResolveWith(ok)

JournalSpec == JournalInit /\ [][JournalNext]_vars

\* The page as the only writer of the server's collection.
ClosedNext ==
  \/ Bootstrap
  \/ SubmitHabit
  \/ ClickDemoSeed
  \/ \E i \in 1..MaxHabits : ClickComplete(i)
  \/ \E i \in 1..MaxHabits : ClickViewProgress(i)
  \/ \E i \in 1..MaxHabits : ChangeSelect(i)
  \/ \E i \in 1..MaxRangeButton : ClickRange(i)
  \/ \E tk \in Running : ProbeResolve(tk)
  \/ \E tk \in Running : SeedResolve(tk)
  \/ \E tk \in Running : GetServer(tk)
  \/ \E tk \in Running : GetResolve(tk)
  \/ \E tk \in Running : ProgressResolve(tk)
  \/ \E tk \in Running : AfterLoadHabits(tk)
  \/ \E tk \in Running : PostResolve(tk)
  \/ \E tk \in Running : PutResolve(tk)
  \/ \E tk \in Running : ResetResolve(tk)

ClosedSpec == Init /\ [][ClosedNext]_vars

\* The behaviours in which two progress requests are never in flight at once.
ProgressCount == BagCardinality([tk \in ProgressInFlight |-> tasks[tk]])

NoProgressOverlap == ProgressCount <= 1

SerialNext ==
  \/ Bootstrap /\ NoProgressOverlap'
  \/ SubmitHabit /\ NoProgressOverlap'
  \/ ClickDemoSeed /\ NoProgressOverlap'
  \/ \E i \in 1..MaxHabits : ClickComplete(i) /\ NoProgressOverlap'
  \/ \E i \in 1..MaxHabits : ClickViewProgress(i) /\ NoProgressOverlap'
  \/ \E i \in 1..MaxHabits : ChangeSelect(i) /\ NoProgressOverlap'
  \/ \E i \in 1..MaxRangeButton : ClickRange(i) /\ NoProgressOverlap'
  \/ \E i \in 1..MaxHabits : ServerDeleteHabit(i) /\ NoProgressOverlap'
  \/ \E tk \in Running : ProbeResolve(tk) /\ NoProgressOverlap'
  \/ \E tk \in Running : SeedResolve(tk) /\ NoProgressOverlap'
  \/ \E tk \in Running : GetServer(tk) /\ NoProgressOverlap'
  \/ \E tk \in Running : GetResolve(tk) /\ NoProgressOverlap'
  \/ \E tk \in Running : ProgressResolve(tk) /\ NoProgressOverlap'
  \/ \E tk \in Running : AfterLoadHabits(tk) /\ NoProgressOverlap'
  \/ \E tk \in Running : PostResolve(tk) /\ NoProgressOverlap'
  \/ \E tk \in Running : PutResolve(tk) /\ NoProgressOverlap'
  \/ \E tk \in Running : ResetResolve(tk) /\ NoProgressOverlap'

SerialSpec == Init /\ [][SerialNext]_vars

\* ------------------------------------------------------------------ claims
SelectionConsistent ==
  IF Len(habitList) > 0 THEN currentHabitId \in Ids(habitList)
  ELSE currentHabitId = null

\* C1 as stated: in every reachable state, requests in flight or not, the
\* selection is consistent with the last rendered collection.
C1_SelectionAlwaysConsistent == SelectionConsistent

\* C1, amended: the selection is consistent with the last rendered habit
\* collection in every reachable state except those where the last assignment
\* of currentHabitId was addHabit's (the created habit is not rendered yet).
C1_SelectionConsistentUnlessAdded == currentBy # "addHabit" => SelectionConsistent

C1_Witness ==
  /\ currentBy = "updateHabitSelectOptions"
  /\ Len(habitList) > 0
  /\ ProgressInFlight # {}
  /\ events > 0

\* C2: after updateHabitSelectOptions(C) called with currentHabitId = p:
\* C empty gives null and a single disabled option; p a member of C is kept;
\* otherwise the first habit of C is current and shown selected.
C2_UpdateHabitSelectOptions ==
  currentBy = "updateHabitSelectOptions" =>
    /\ Len(habitList) = 0 =>
         /\ currentHabitId = null
         /\ Len(select.options) = 1
         /\ select.options[1].disabled
    /\ (Len(habitList) > 0 /\ previous \in Ids(habitList)) => currentHabitId = previous
    /\ (Len(habitList) > 0 /\ previous \notin Ids(habitList)) =>
         /\ currentHabitId = habitList[1].id
         /\ select.selectedIndex \in 1..Len(select.options)
         /\ select.options[select.selectedIndex].value = habitList[1].id

C2_Witness ==
  /\ currentBy = "updateHabitSelectOptions"
  /\ Len(habitList) > 1
  /\ previous # null
  /\ previous \notin Ids(habitList)
  /\ currentHabitId = habitList[1].id

\* C3 as stated: after bootstrap, currentHabitId null implies state `empty`.
C3_NullImpliesEmpty == (Booted /\ currentHabitId = null) => state = "empty"

\* C3, amended: after bootstrap, while currentHabitId is null the state is
\* `empty`, or the `error` set by loadHabits' catch clause, or what a progress
\* response that resolved after the reset left; it is never `loading`.
C3_NullVisibility ==
  (Booted /\ currentHabitId = null) =>
    \/ state = "empty"
    \/ state = "error" /\ stateBy = "loadHabitsCatch"
    \/ state \in {"ready", "error"} /\ stateBy = "progressResponse"

C3_Witness ==
  /\ currentHabitId = null
  /\ state = "error"
  /\ stateBy = "loadHabitsCatch"
  /\ message = HABITS_ERROR_MESSAGE

\* C4: the state is never `ready` while currentHabitId is null.
C4_NeverReadyWhenNull == ~(state = "ready" /\ currentHabitId = null)

\* C5: after every updateChartVisibility call, and so in every state after
\* bootstrap, the canvas is visible iff the state is `ready` and the
\* placeholder is visible iff it is not.
C5_ExactlyOneVisible ==
  /\ Booted => /\ canvasVisible <=> state = "ready"
               /\ placeholderVisible <=> state # "ready"
  /\ \A st \in VisStates, msg \in {"", DEFAULT_CHART_MESSAGE} :
       LET r == updateChartVisibility(UI, st, msg)
       IN /\ r.canvasVisible <=> st = "ready"
          /\ r.placeholderVisible <=> st # "ready"

C5_Witness ==
  /\ state = "loading"
  /\ habitChart # NoChart
  /\ placeholderVisible
  /\ ~canvasVisible

\* C6: while the state is `empty` or `error` the chart handle is null and no
\* chart instance is live.
C6_NoChartWhenEmptyOrError ==
  state \in {"empty", "error"} => habitChart = NoChart /\ liveCharts = 0

C6_Witness ==
  /\ state = "error"
  /\ stateBy = "loadHabitsCatch"
  /\ destroyCalls = 1
  /\ habitChart = NoChart

\* C7: at most one chart instance is live.
C7_AtMostOneLiveChart == liveCharts <= 1

C7_Witness ==
  /\ state = "ready"
  /\ liveCharts = 1
  /\ destroyCalls = 1
  /\ ProgressInFlight # {}

\* C8 as stated: no chart instance is live unless the state is `ready`.
C8_NoChartUnlessReady == state # "ready" => liveCharts = 0

\* C8, amended: outside `ready` no chart instance is live, except in `loading`,
\* where the previous chart stays live, hidden and referenced by habitChart.
C8_ChartHiddenWhileLoading ==
  (state # "ready" /\ liveCharts # 0) =>
    /\ state = "loading"
    /\ liveCharts = 1
    /\ habitChart # NoChart
    /\ ~chartDestroyed
    /\ ~canvasVisible

C8_Witness ==
  /\ state = "loading"
  /\ liveCharts = 1
  /\ habitChart # NoChart
  /\ habitChart.hid # currentHabitId

\* C9: a loadHabitProgress invocation leaves `ready` or `error` behind on every
\* path, so the state is `loading` only while a progress request is in flight.
C9_LoadingOnlyInFlight ==
  /\ state = "loading" => ProgressInFlight # {}
  /\ stateBy = "progressResponse" => state \in {"ready", "error"}

C9_Witness ==
  /\ stateBy = "progressResponse"
  /\ state = "error"
  /\ message = CHART_UNAVAILABLE_MESSAGE
  /\ ProgressInFlight = {}

ErrorToast == \E i \in 1..Len(toasts) : toasts[i].tone = "error"

\* C10: the step in which loadHabitProgress handles a failed request ends with
\* state `error`, a non-empty message, an error toast and no chart instance.
C10_FailureHandled ==
  [][\A tk \in Running : \A outcome \in ProgressOutcomes :
       (ProgressResolveWith(tk, outcome) /\ (outcome # "ok" \/ ~chartLib)) =>
         /\ state' = "error"
         /\ message' # ""
         /\ ErrorToast'
         /\ habitChart' = NoChart
         /\ liveCharts' = 0]_vars

C10_Witness ==
  /\ state = "error"
  /\ stateBy = "progressResponse"
  /\ message = PROGRESS_ERROR_MESSAGE
  /\ ErrorToast
  /\ destroyCalls > 0
  /\ liveCharts = 0

\* C11: an invocation that has given currentHabitId a new non-null value and
\* waits for a progress response has called loadHabitProgress exactly once
\* since the change: not zero times and not twice.
C11_ExactlyOneLoad ==
  \A tk \in Running : (tk.changed /\ tk.pc \in ProgressPcs) => tk.loads = 1

C13_NullLoadIsNoOp ==
  currentHabitId = null =>
    /\ ~progressIssued(UI)
    /\ LET r == loadHabitProgressStart(UI)
       IN /\ r.state = state /\ r.message = message
          /\ r.canvasVisible = canvasVisible
          /\ r.placeholderVisible = placeholderVisible
          /\ r.habitChart = habitChart /\ r.liveCharts = liveCharts
          /\ r.currentHabitId = currentHabitId /\ r.currentRange = currentRange

C13_Witness ==
  /\ Booted
  /\ currentHabitId = null
  /\ previous # null
  /\ state = "empty"
  /\ loadHabitProgressStart(UI).state = "empty"

ActiveButtons == {i \in 1..Len(rangeButtons) : rangeButtons[i].active}

\* C14: currentRange starts at 30 and is always one of 7, 14, 30, 90; once the
\* range control is rendered exactly one button is active, the one of
\* currentRange; a range-button click sets currentRange to the clicked value,
\* leaves currentHabitId alone and calls loadHabitProgress for the current
\* habit and the new range.
C14_RangeControl ==
  /\ currentRange = InitialRange
  /\ [](/\ currentRange \in RangeSet
        /\ Booted => /\ Cardinality(ActiveButtons) = 1
                     /\ \A i \in ActiveButtons : rangeButtons[i].range = currentRange)
  /\ [][\A i \in 1..MaxRangeButton :
          ClickRange(i) =>
            /\ currentRange' = rangeButtons[i].range
            /\ currentHabitId' = currentHabitId
            /\ state' = "loading"
            /\ \E tk \in BagToSet(tasks') :
                 /\ tk.pc \in ProgressPcs
                 /\ tk.req = [hid |-> currentHabitId, range |-> rangeButtons[i].range]
                 /\ tasks' = tasks (+) SetToBag({tk})]_vars

C14_Witness ==
  /\ currentRange # InitialRange
  /\ Cardinality(ActiveButtons) = 1
  /\ \E tk \in ProgressInFlight :
       tk.req = [hid |-> currentHabitId, range |-> currentRange]

\* C15: after bootstrap, while currentHabitId is null every rendered range
\* button is disabled.
C15_RangeDisabledWhenNull ==
  (Booted /\ currentHabitId = null) =>
    /\ Len(rangeButtons) = Len(chartRanges)
    /\ \A i \in 1..Len(rangeButtons) : rangeButtons[i].disabled

C15_Witness ==
  /\ currentHabitId = null
  /\ currentBy = "updateHabitSelectOptions"
  /\ previous # null
  /\ Len(rangeButtons) = Len(chartRanges)
  /\ \A i \in 1..Len(rangeButtons) : rangeButtons[i].disabled

\* C16: the rendered habits change only when a fetched collection is rendered;
\* a completion click and the answer to its update leave the rendered list
\* alone; a successful update starts a reload of the collection; a failed one
\* leaves currentHabitId and currentRange alone and starts no reload.
C16_ToggleNeverLocal ==
  [][/\ habitList' # habitList =>
          \E tk \in Running : GetResolve(tk) /\ tk.resp = "ok" /\ habitList' = tk.snap
     /\ \A i \in 1..MaxHabits : ClickComplete(i) => habitList' = habitList
     /\ \A tk \in Running :
          /\ PutResolveWith(tk, TRUE) =>
               /\ habitList' = habitList
               /\ \E t2 \in BagToSet(tasks') :
                    /\ t2.kind = "toggle" /\ t2.pc = "probe"
                    /\ tasks' = (tasks (-) SetToBag({tk})) (+) SetToBag({t2})
          /\ PutResolveWith(tk, FALSE) =>
               /\ habitList' = habitList
               /\ currentHabitId' = currentHabitId
               /\ currentRange' = currentRange
               /\ tasks' = tasks (-) SetToBag({tk})]_vars

C16_Witness ==
  /\ \E i \in 1..Len(habitList) : habitList[i].completed
  /\ \E tk \in Running : tk.kind = "toggle" /\ tk.pc = "prog"

\* C17 as stated: when the reload after a successful addHabit renders a
\* collection containing the created habit, currentHabitId is the created id,
\* the selector shows it and a progress load for (created id, currentRange) is
\* issued; an empty name sends nothing; a failed create leaves currentHabitId
\* alone and starts no reload.
C17_CreatedIsSelected ==
  [][/\ \A tk \in Running :
          (GetResolve(tk) /\ tk.kind = "addHabit" /\ tk.resp = "ok"
             /\ tk.habit.id \in Ids(tk.snap)) =>
            /\ currentHabitId' = tk.habit.id
            /\ select'.options[select'.selectedIndex].value = tk.habit.id
            /\ \E t2 \in BagToSet(tasks') :
                 /\ t2.kind = "addHabit" /\ t2.pc = "prog"
                 /\ t2.req = [hid |-> tk.habit.id, range |-> currentRange]
     /\ SubmitHabitNamed("") => tasks' = tasks
     /\ \A tk \in Running :
          PostResolveWith(tk, FALSE) =>
            /\ currentHabitId' = currentHabitId
            /\ tasks' = tasks (-) SetToBag({tk})]_vars

\* C17, amended: a successful create makes the created id current at once;
\* when the reload that follows renders a collection containing the created
\* habit while currentHabitId is still the created id, it stays current, the
\* selector shows it and a progress load for (created id, currentRange) is
\* issued; an empty name sends nothing; a failed create leaves currentHabitId
\* alone and starts no reload.
C17_CreatedIsSelectedUnlessReassigned ==
  [][/\ \A tk \in Running :
          PostResolveWith(tk, TRUE) =>
            /\ currentHabitId' = server'[Len(server')].id
            /\ currentHabitId' \notin Ids(server)
            /\ \E t2 \in BagToSet(tasks') : t2.kind = "addHabit" /\ t2.pc = "probe"
     /\ \A tk \in Running :
          (GetResolve(tk) /\ tk.kind = "addHabit" /\ tk.resp = "ok"
             /\ tk.habit.id \in Ids(tk.snap) /\ currentHabitId = tk.habit.id) =>
            /\ currentHabitId' = tk.habit.id
            /\ select'.options[select'.selectedIndex].value = tk.habit.id
            /\ \E t2 \in BagToSet(tasks') :
                 /\ t2.kind = "addHabit" /\ t2.pc = "prog"
                 /\ t2.req = [hid |-> tk.habit.id, range |-> currentRange]
     /\ SubmitHabitNamed("") => tasks' = tasks
     /\ \A tk \in Running :
          PostResolveWith(tk, FALSE) =>
            /\ currentHabitId' = currentHabitId
            /\ tasks' = tasks (-) SetToBag({tk})]_vars

C17_Witness ==
  /\ Len(habitList) > 1
  /\ select.options[select.selectedIndex].value = currentHabitId
  /\ \E tk \in Running :
       /\ tk.kind = "addHabit" /\ tk.pc = "prog"
       /\ tk.habit.id = currentHabitId
       /\ tk.req = [hid |-> currentHabitId, range |-> InitialRange]

SuccessToast == \E i \in 1..Len(toasts) : toasts[i].tone = "success"

\* C18: a non-success answer to any gateway request takes the failure path: no
\* success toast and no success-side change (no reload, no new selection, no
\* rendering).
C18_NonSuccessIsFailure ==
  [][\A tk \in Running :
       /\ ResetResolveWith(tk, "status") =>
            ~SuccessToast' /\ tasks' = tasks (-) SetToBag({tk})
       /\ PostResolveWith(tk, FALSE) =>
            ~SuccessToast' /\ currentHabitId' = currentHabitId
                           /\ tasks' = tasks (-) SetToBag({tk})
       /\ PutResolveWith(tk, FALSE) =>
            ~SuccessToast' /\ tasks' = tasks (-) SetToBag({tk})
       /\ (GetResolve(tk) /\ tk.resp = "fail") =>
            ~SuccessToast' /\ habitList' = habitList /\ select' = select
       /\ ProgressResolveWith(tk, "fail") =>
            ~SuccessToast' /\ state' # "ready"]_vars

\* C19: every failed gateway request ends in an error toast, and a failed
\* habit-collection or progress request also in state `error` with a message.
C19_FailureToasted ==
  [][\A tk \in Running :
       /\ ProbeResolveWith(tk, FALSE) => ErrorToast'
       /\ (GetResolve(tk) /\ tk.resp = "fail") =>
            ErrorToast' /\ state' = "error" /\ message' # ""
       /\ ProgressResolveWith(tk, "fail") =>
            ErrorToast' /\ state' = "error" /\ message' # ""
       /\ PostResolveWith(tk, FALSE) => ErrorToast'
       /\ PutResolveWith(tk, FALSE) => ErrorToast'
       /\ ResetResolveWith(tk, "rejected") => ErrorToast']_vars

\* C20: nothing is retried: a loadHabits invocation whose first GET
\* /api/habits (the seeding probe) failed sends no further request.
C20_NoAutomaticRetry ==
  [][\A tk \in Running :
       ProbeResolveWith(tk, FALSE) =>
         ~\E t2 \in BagToSet(tasks') :
            t2.kind = tk.kind /\ t2.pc = "get" /\ t2.resp = "pending"
              /\ tasks' = (tasks (-) SetToBag({tk})) (+) SetToBag({t2})]_vars

JournalEntryItems == {i \in 1..Len(journal.list) : journal.list[i].class = "journal-entry"}

\* C21: after a successful load the list holds exactly the entries of the
\* response, newest first (for T1 < T2 the entry of T2 comes first), and
\* exactly one empty-state item and nothing else when there are none.
C21_JournalNewestFirst ==
  (journal.pc = "done" /\ journal.toasts = <<>>) =>
    IF Len(journal.response) = 0 THEN journal.list = <<EmptyItem>>
    ELSE /\ Len(journal.list) = Len(journal.response)
         /\ JournalEntryItems = 1..Len(journal.list)
         /\ \A e \in 1..Len(journal.response) :
              \E i \in 1..Len(journal.list) :
                /\ journal.list[i].id = journal.response[e].id
                /\ journal.list[i].timestamp = journal.response[e].timestamp
         /\ \A i, j \in 1..Len(journal.list) :
              DateOf(journal.list[i].timestamp) < DateOf(journal.list[j].timestamp) => j < i

C21_Witness ==
  /\ journal.pc = "done"
  /\ Len(journal.list) = MaxEntries
  /\ journal.response[1].timestamp = "2024-01-01T10:00:00Z"
  /\ journal.response[2].timestamp = "2024-01-01T23:00:00-02:00"
  /\ journal.list[1].id = 2
  /\ journal.list[MaxEntries].id = 1

\* C22: updateChartVisibility called twice in a row with the same state and
\* message leaves the same visibility state, canvas and placeholder
\* visibility, message and chart handle as one call, whatever came before.
C22_VisibilityIdempotent ==
  \A st \in VisStates, msg \in {"", DEFAULT_CHART_MESSAGE, LOADING_MESSAGE} :
    LET once == updateChartVisibility(UI, st, msg)
        twice == updateChartVisibility(once, st, msg)
    IN /\ twice.state = once.state
       /\ twice.canvasVisible = once.canvasVisible
       /\ twice.placeholderVisible = once.placeholderVisible
       /\ twice.message = once.message
       /\ twice.habitChart = once.habitChart
       /\ twice.liveCharts = once.liveCharts

\* loadHabits with an empty collection calls it twice with ('empty', default
\* message): in renderHabits and again at line 217.
C22_Witness ==
  /\ stateBy = "loadHabits"
  /\ state = "empty"
  /\ message = DEFAULT_CHART_MESSAGE
  /\ Len(habitList) = 0
  /\ destroyCalls = 1
  /\ habitChart = NoChart

\* The score and the target the claim speaks of, in tenths: the score clamped
\* to [0, 100] (0 when missing or not finite), the target clamped to [0, 7]
\* (7 when missing or not positive).
ClampedScore ==
  IF bars.score.kind = "number" THEN mathMin(1000, mathMax(0, bars.score.tenths)) ELSE 0

ClampedTarget ==
  IF bars.target.kind = "number" /\ bars.target.tenths > 0
  THEN mathMin(70, bars.target.tenths) ELSE 70

\* C23 as stated: the actual bar is as wide as the clamped score, the ideal
\* bar as wide as target/7 clamped, in percent.
C23_BarWidthsExact ==
  bars.pc = "rendered" =>
    /\ 10 * bars.actual = ClampedScore
    /\ 70 * bars.ideal = 100 * ClampedTarget

\* C23, amended: each width is a whole number of percent, the nearest to the
\* clamped value (a half goes up).
C23_BarWidthsRounded ==
  bars.pc = "rendered" =>
    /\ bars.actual \in 0..100
    /\ 10 * bars.actual - ClampedScore \in -4..5
    /\ bars.ideal \in 0..100
    /\ 2 * (70 * bars.ideal - 100 * ClampedTarget) \in -69..70

C23_Witness ==
  /\ bars.pc = "rendered"
  /\ bars.score = Number(455)
  /\ bars.actual = 46
  /\ bars.target = Number(50)
  /\ bars.ideal = 71

\* tk goes on as t2 in the next state.
Continues(tk, t2) == tasks' = (tasks (-) SetToBag({tk})) (+) SetToBag({t2})

\* C24: loadHabits sends the seeding request exactly when its probe succeeded
\* and found the collection empty; after the probe or the seeding it fetches
\* the collection, renders list and selector from that response, and calls
\* loadHabitProgress iff currentHabitId is then non-null, else sets `empty`.
C24_SeedThenFetch ==
  [][\A tk \in Running :
       /\ \A ok \in BOOLEAN :
            ProbeResolveWith(tk, ok) =>
              \E t2 \in BagToSet(tasks') :
                /\ Continues(tk, t2)
                /\ t2.pc = IF ok /\ Len(server) = 0 THEN "seed" ELSE "get"
       /\ SeedResolve(tk) =>
            \E t2 \in BagToSet(tasks') :
              Continues(tk, t2) /\ t2.pc = "get" /\ t2.resp = "pending"
       /\ (GetResolve(tk) /\ tk.resp = "ok") =>
            /\ habitList' = tk.snap
            /\ Len(tk.snap) > 0 =>
                 /\ Len(select'.options) = Len(tk.snap)
                 /\ \A i \in 1..Len(tk.snap) : select'.options[i].value = tk.snap[i].id
            /\ IF currentHabitId' # null
               THEN /\ state' = "loading"
                    /\ \E t2 \in BagToSet(tasks') :
                         /\ Continues(tk, t2)
                         /\ t2.pc = "prog"
                         /\ t2.req = [hid |-> currentHabitId', range |-> currentRange']
               ELSE /\ state' = "empty"
                    /\ \A t2 \in BagToSet(tasks') :
                         t2.pc \in ProgressPcs => t2 \in Running /\ tasks'[t2] = tasks[t2]]_vars

C24_Witness ==
  /\ events > 0
  /\ Len(server) = 0
  /\ Len(habitList) > 0
  /\ \E tk \in Running : tk.pc = "seed"

\* What C25 says of every successful mutation: it starts a reload of the
\* collection, and when the reload renders a collection that contains
\* currentHabitId, it keeps currentHabitId and currentRange and starts a
\* progress load for that pair.
MutationReloads(tk) ==
  /\ PostResolveWith(tk, TRUE) =>
       \E t2 \in BagToSet(tasks') : Continues(tk, t2) /\ t2.pc = "probe"
  /\ PutResolveWith(tk, TRUE) =>
       /\ \E t2 \in BagToSet(tasks') : Continues(tk, t2) /\ t2.pc = "probe"
       /\ currentHabitId' = currentHabitId
  /\ (GetResolve(tk) /\ tk.kind \in {"addHabit", "toggle"} /\ tk.resp = "ok"
        /\ currentHabitId \in Ids(tk.snap)) =>
       /\ currentHabitId' = currentHabitId
       /\ currentRange' = currentRange
       /\ state' = "loading"
       /\ \E t2 \in BagToSet(tasks') :
            /\ Continues(tk, t2)
            /\ t2.pc = "prog"
            /\ t2.req = [hid |-> currentHabitId, range |-> currentRange]

\* C25 as stated: the above, and toggling a habit other than the current one
\* never changes currentHabitId.
C25_ToggleNeverChangesSelection ==
  [][\A tk \in Running :
       /\ MutationReloads(tk)
       /\ (tk.kind = "toggle" /\ tk.habit.id # currentHabitId
            /\ (GetResolve(tk) \/ PutResolve(tk) \/ ProbeResolve(tk) \/ SeedResolve(tk)
                \/ ProgressResolve(tk) \/ AfterLoadHabits(tk))) =>
            currentHabitId' = currentHabitId]_vars

\* C25, amended: toggling a habit other than the current one changes
\* currentHabitId only when its reload renders a collection that does not
\* contain currentHabitId: then the first habit of that collection becomes
\* current, or null when it is empty.
C25_ToggleKeepsPresentSelection ==
  [][\A tk \in Running :
       /\ MutationReloads(tk)
       /\ (tk.kind = "toggle" /\ tk.habit.id # currentHabitId
            /\ (GetResolve(tk) \/ PutResolve(tk) \/ ProbeResolve(tk) \/ SeedResolve(tk)
                \/ ProgressResolve(tk) \/ AfterLoadHabits(tk))
            /\ currentHabitId' # currentHabitId) =>
            /\ GetResolve(tk) /\ tk.resp = "ok"
            /\ currentHabitId \notin Ids(tk.snap)
            /\ currentHabitId' = IF Len(tk.snap) = 0 THEN null ELSE tk.snap[1].id]_vars

C25_Witness ==
  /\ \E tk \in Running :
       /\ tk.kind = "toggle" /\ tk.pc = "prog"
       /\ tk.habit.id # currentHabitId
       /\ tk.req = [hid |-> currentHabitId, range |-> currentRange]
  /\ \E i \in 1..Len(habitList) : habitList[i].completed
  /\ state = "loading"

\* C26: destroy() is never called on a chart instance that was destroyed
\* before.
C26_DestroyedAtMostOnce == ~destroyedTwice

\* C27: with no request in flight and the last habit-collection load a
\* success, the rendered habits are the server's collection.
C27_RenderedEqualsServer ==
  (tasks = EmptyBag /\ lastLoad = "ok") => habitList = server

\* C28: in state `ready` the chart is the one of the current habit and range,
\* the interval after addHabit's assignment included.
C28_ChartMatchesSelection ==
  state = "ready" => habitChart = [hid |-> currentHabitId, range |-> currentRange]

\* C28, amended: in state `ready` the chart is the one of the current habit
\* and range, except after addHabit's assignment until the reload starts the
\* new load, and except when a rendering of an empty collection reset
\* currentHabitId to null while the progress request was in flight.
C28_ChartMatchesUnlessReassigned ==
  state = "ready" =>
    \/ habitChart = [hid |-> currentHabitId, range |-> currentRange]
    \/ currentBy = "addHabit"
    \/ currentHabitId = null /\ currentBy = "updateHabitSelectOptions"

C28_Witness ==
  /\ state = "ready"
  /\ currentBy = "addHabit"
  /\ habitChart # NoChart
  /\ habitChart.hid # currentHabitId
  /\ ProgressInFlight = {}

completedOn(habits, id) == \E i \in 1..Len(habits) : habits[i].id = id /\ habits[i].completed

\* C29: every completion request the server accepts flips the habit's flag
\* from what it is on the server at that moment.
C29_ClickFlipsServerFlag ==
  [][\A tk \in Running :
       PutResolveWith(tk, TRUE) =>
         completedOn(server', tk.habit.id) = ~completedOn(server, tk.habit.id)]_vars

====
